---- MODULE Spec2Model ----
(***************************************************************************)
(* Model of the Raspberry Pi GPS -> LoRa sender (src/raspi_lora).          *)
(*                                                                         *)
(* Spec is the position-sensor side: the UBX frame assembler of I2CGPS     *)
(* (_buf, _try_parse_buf, _ubx_checksum) and the deadline-bounded polling  *)
(* loops of I2CGPS.get_fix and SerialGPS.get_fix, called by any caller.    *)
(* DecoderSpec is the NAV-POSLLH decoder applied to one payload.           *)
(* LoraSpec is LoRaSerial (open, close, send_packet in both modes) with    *)
(* the HAT on the other end of its channel, used by any caller.            *)
(* MainSpec is run() of main.py: startup, the acquisition loop calling     *)
(* get_fix and send_packet, and the way the process ends.                  *)
(* PacketSpec is make_packet of packet.py applied to one fix.              *)
(* WaitSpec is Spec with a sensor whose first frame announces more than    *)
(* it has sent.                                                            *)
(*                                                                         *)
(* Bytes are integers 0..255.  Buffer indices are 0-based in the Python    *)
(* source and 1-based in TLA+ sequences: Python buf[i] is b[i+1] here.     *)
(* Time is counted in ticks; one tick is the shortest duration of one      *)
(* iteration of a polling loop (time.sleep(0.01) in I2CGPS.get_fix).       *)
(***************************************************************************)
EXTENDS Integers, Sequences, FiniteSets, TLC

\* ------------------------------------------------------------------------
\* Bounds of the model
\* ------------------------------------------------------------------------
\* number of segments the sensor puts on the bus in one run
MaxSegs == 2
\* get_fix timeout (cfg.serial_timeout) in ticks
Timeout == 2
\* longest time one readline of the serial channel blocks, in ticks
MaxDt == 2

\* ------------------------------------------------------------------------
\* Program constants
\* ------------------------------------------------------------------------
\* hdr = b"\xb5\x62"
SYNC1 == 181
SYNC2 == 98
\* i2c_msg.read(self.i2c_addr, 64)
ReadSize == 64
\* NAV-POSLLH class / id
NAV_CLASS == 1
NAV_POSLLH_ID == 2
\* minimum NAV-POSLLH payload
MinPosPayload == 28

\* ------------------------------------------------------------------------
\* Sequence helpers
\* ------------------------------------------------------------------------
MinOf(S) == CHOOSE x \in S : \A y \in S : x <= y

\* Python del s[a:b] (0-based, b exclusive), the slice given as sl = <<a, b>>
DelSlice(s, sl) == SubSeq(s, 1, sl[1]) \o SubSeq(s, sl[2] + 1, Len(s))

RECURSIVE Flatten(_)
Flatten(ss) == IF ss = <<>> THEN <<>> ELSE Head(ss) \o Flatten(Tail(ss))

\* ------------------------------------------------------------------------
\* The sensor (environment): what a u-blox receiver puts on the bus
\* ------------------------------------------------------------------------
\* UBX protocol checksum as the sensor computes it (8-bit Fletcher sums):
\* CK_A is the sum of the bytes, CK_B the sum of the running sums, i.e. the
\* i-th of n bytes counts n-i+1 times.
RECURSIVE SumTo(_, _)
SumTo(f, n) == IF n = 0 THEN 0 ELSE f[n] + SumTo(f, n - 1)

DevCkA(data) == SumTo(data, Len(data)) % 256
DevCkB(data) ==
    SumTo([i \in 1..Len(data) |-> (Len(data) - i + 1) * data[i]], Len(data)) % 256

\* a well-formed UBX frame as sent by the sensor
DevFrame(cls, id, payload) ==
    LET body == <<cls, id, Len(payload) % 256, Len(payload) \div 256>> \o payload
    IN  <<SYNC1, SYNC2>> \o body \o <<DevCkA(body), DevCkB(body)>>

\* s with byte i replaced by a different value
Corrupt(s, i) == [s EXCEPT ![i] = (s[i] + 1) % 256]

\* little-endian two's complement 32-bit encoding of x
LE32(x) ==
    <<x % 256, (x \div 256) % 256, (x \div 65536) % 256, (x \div 16777216) % 256>>

\* NAV-POSLLH payload: iTOW, lon, lat, height, hMSL, hAcc, vAcc
PosPayload(lon, lat, height) ==
    <<0, 0, 0, 0>> \o LE32(lon) \o LE32(lat) \o LE32(height)
        \o <<0, 0, 0, 0>> \o <<0, 0, 0, 0>> \o <<0, 0, 0, 0>>

\* the position the sensor reports (raw units: 1e-7 degree, millimetres)
SamplePos == [lon |-> -740251000, lat |-> 407454000, height |-> 5000]

AckPayload == <<6, 1>>

SegNames ==
    {"posfull", "posshort", "ack", "badA", "badB", "noise", "partial"}

\* kind of a segment: the frame it carries, if it carries a valid one
SegFrame(name) ==
    CASE name = "posfull"  -> [valid |-> TRUE, cls |-> NAV_CLASS, id |-> NAV_POSLLH_ID,
                               payload |-> PosPayload(SamplePos.lon, SamplePos.lat, SamplePos.height)]
      [] name = "posshort" -> [valid |-> TRUE, cls |-> NAV_CLASS, id |-> NAV_POSLLH_ID,
                               payload |-> <<>>]
      [] name = "ack"      -> [valid |-> TRUE, cls |-> 5, id |-> 1, payload |-> AckPayload]
      [] OTHER             -> [valid |-> FALSE, cls |-> 0, id |-> 0, payload |-> <<>>]

SegBytes(name) ==
    CASE name \in {"posfull", "posshort", "ack"} ->
             DevFrame(SegFrame(name).cls, SegFrame(name).id, SegFrame(name).payload)
      \* the ack frame with its first checksum byte corrupted
      [] name = "badA" -> Corrupt(DevFrame(5, 1, AckPayload), 9)
      \* a frame of class 0xB5, id 0x62 with its second checksum byte corrupted
      [] name = "badB" -> Corrupt(DevFrame(SYNC1, SYNC2, <<>>), 8)
      \* 0xFF fill bytes followed by a stray first byte of a sync marker
      [] name = "noise" -> <<255, 255, SYNC1>>
      \* a header announcing a 4-byte payload that never comes
      [] name = "partial" -> <<SYNC1, SYNC2, 5, 1, 4, 0>>
      \* a header announcing a 12-byte payload that never comes
      [] name = "long" -> <<SYNC1, SYNC2, 5, 1, 12, 0>>
      \* a valid frame whose payload is the bytes of the ack frame
      [] name = "nest" -> DevFrame(5, 1, DevFrame(5, 1, AckPayload))

Scripts == UNION {[1..n -> SegNames] : n \in 1..MaxSegs}

Stream(ss) == Flatten([i \in 1..Len(ss) |-> SegBytes(ss[i])])

\* ------------------------------------------------------------------------
\* I2CGPS: frame assembler
\* ------------------------------------------------------------------------
NoFrame == [valid |-> FALSE, cls |-> 0, id |-> 0, payload |-> <<>>]

\* _ubx_checksum: ck_a, ck_b over data
RECURSIVE CkLoop(_, _, _, _)
CkLoop(data, i, ck_a, ck_b) ==
    IF i > Len(data) THEN <<ck_a, ck_b>>
    ELSE LET a == (ck_a + data[i]) % 256
         IN  CkLoop(data, i + 1, a, (ck_b + a) % 256)

\* mutants: the two sums returned in the wrong order; ck_b summing the bytes
ubx_checksum_swapped(data) == <<CkLoop(data, 1, 0, 0)[2], CkLoop(data, 1, 0, 0)[1]>>
ubx_checksum_plain(data) == <<CkLoop(data, 1, 0, 0)[1], CkLoop(data, 1, 0, 0)[1]>>

ubx_checksum(data) == CkLoop(data, 1, 0, 0)

\* buf.find(hdr): 0-based index of the first sync marker, -1 if none
\* mutant: the last sync marker of the buffer
find_last(b) ==
    LET hits == {i \in 0..(Len(b) - 2) : b[i + 1] = SYNC1 /\ b[i + 2] = SYNC2}
    IN  IF hits = {} THEN -1 ELSE CHOOSE i \in hits : \A j \in hits : j <= i

find(b) ==
    LET hits == {i \in 0..(Len(b) - 2) : b[i + 1] = SYNC1 /\ b[i + 2] = SYNC2}
    IN  IF hits = {} THEN -1 ELSE MinOf(hits)

\* mutant: the whole buffer is cleared
nosync_del_all(b) == <<0, Len(b)>>

\* del buf[:-2] when len(buf) > 2
nosync_del(b) == IF Len(b) > 2 THEN <<0, Len(b) - 2>> ELSE <<0, 0>>

\* mutant: the length is taken one short
frame_length_short(b, idx) == b[idx + 5] + b[idx + 6] * 256 - 1

\* length = buf[idx + 4] | (buf[idx + 5] << 8)
frame_length(b, idx) == b[idx + 5] + b[idx + 6] * 256

\* mutants: twelve bytes skipped; one byte skipped; nothing skipped;
\* everything up to the marker too
badck_del_wide(idx) == <<idx, idx + 12>>
badck_del_one(idx) == <<idx, idx + 1>>
badck_del_none(idx) == <<idx, idx>>
badck_del_prefix(idx) == <<0, idx + 2>>

\* del buf[idx : idx + 2]
badck_del(idx) == <<idx, idx + 2>>

\* mutant: the checksum bytes are left in the buffer
frame_del_short(total) == <<0, total - 2>>

\* del buf[:total]
frame_del(total) == <<0, total>>

\* _try_parse_buf on buffer contents b.  del is the slice the call deletes
\* from the buffer (<<0, 0>>: none), ret the value it returns; branch and idx
\* record which path was taken.
try_parse_buf(b) ==
    LET idx == find(b)
    IN  IF idx = -1
        THEN [del |-> nosync_del(b), ret |-> NoFrame, branch |-> "nosync", idx |-> idx]
        ELSE IF Len(b) < idx + 6
        THEN [del |-> <<0, 0>>, ret |-> NoFrame, branch |-> "header", idx |-> idx]
        ELSE LET length == frame_length(b, idx)
                 total  == idx + 6 + length + 2
             IN  IF Len(b) < total
                 THEN [del |-> <<0, 0>>, ret |-> NoFrame, branch |-> "wait", idx |-> idx]
                 ELSE LET msg == SubSeq(b, idx + 1, total)
                          ck  == ubx_checksum(SubSeq(msg, 3, 6 + length))
                      IN  IF ck # SubSeq(msg, 6 + length + 1, 6 + length + 2)
                          THEN [del |-> badck_del(idx), ret |-> NoFrame,
                                branch |-> "badck", idx |-> idx]
                          ELSE [del |-> frame_del(total),
                                ret |-> [valid |-> TRUE, cls |-> msg[3], id |-> msg[4],
                                         payload |-> SubSeq(msg, 7, 6 + length)],
                                branch |-> "frame", idx |-> idx]

\* ------------------------------------------------------------------------
\* I2CGPS: position decoder
\* ------------------------------------------------------------------------
NoFix == [kind |-> "none", lat |-> 0, lon |-> 0, alt |-> 0]

\* units of lat and lon per degree (lat * 1e-7) and of alt per metre
\* (float(height) / 1000.0)
LatLonUnit == 10000000
AltUnit == 1000

\* mutant: the field is read as unsigned
I4_unsigned(p, o) ==
    p[o + 1] + p[o + 2] * 256 + p[o + 3] * 65536 + (p[o + 4] % 128) * 16777216

\* struct "<i": signed little-endian 32-bit integer at payload[o .. o+3]
I4(p, o) ==
    p[o + 1] + p[o + 2] * 256 + p[o + 3] * 65536
        + (IF p[o + 4] >= 128 THEN p[o + 4] - 256 ELSE p[o + 4]) * 16777216

\* mutant: a payload of exactly 28 bytes is declined too
parse_nav_posllh_le(p) ==
    IF Len(p) <= MinPosPayload THEN NoFix
    ELSE [kind |-> "fix", lat |-> I4(p, 8), lon |-> I4(p, 4), alt |-> I4(p, 12)]

\* _parse_nav_posllh.  lat and lon are kept as counts of 1/LatLonUnit degree
\* and alt as a count of 1/AltUnit metre (the float scaling is applied on
\* these integers).
parse_nav_posllh(p) ==
    IF Len(p) < MinPosPayload THEN NoFix
    ELSE [kind |-> "fix", lat |-> I4(p, 8), lon |-> I4(p, 4), alt |-> I4(p, 12)]

\* ------------------------------------------------------------------------
\* State
\* ------------------------------------------------------------------------
VARIABLES
    backend,    \* "i2c" (I2CGPS) or "serial" (SerialGPS)
    segs,       \* what the sensor sends during this run, as segment names
    stream,     \* the same as bytes
    off,        \* number of bytes of stream read from the bus so far
    buf,        \* I2CGPS._buf
    pos,        \* for each byte of buf, its position in stream
    now,        \* time.time(), counted from the entry of the current get_fix
    deadline,   \* get_fix: deadline
    pc,         \* "idle": not in get_fix; "loop": at the head of the while loop
    result,     \* value returned by the last get_fix
    frames,     \* frames returned by _try_parse_buf so far, in order
    rejected,   \* stream positions of sync markers rejected for bad checksum
    split,      \* some read returned bytes but not yet the end of the stream
    last        \* the last step: which operation, which path of _try_parse_buf

\* the position decoder applied to one payload (DecoderSpec)
VARIABLES
    raw,        \* the position the sensor encoded: lon, lat, height
    payload,    \* _parse_nav_posllh: payload
    decoded,    \* _parse_nav_posllh has returned
    fix         \* the value it returned

\* LoRaSerial and its UART channel (LoraSpec)
VARIABLES
    transparent,          \* LoRaSerial.transparent
    timeout,              \* LoRaSerial.timeout, in ticks
    at_response_timeout,  \* LoRaSerial._at_response_timeout, in ticks
    ser,                  \* LoRaSerial.ser: "none", "open" or "closed"
    rx,                   \* lines the HAT has sent and nobody has read yet
    tx,                   \* what the current send has written, one entry per write
    lpc,                  \* "idle", or "collect": in the loop of _send_at_command
    lnow,                 \* time.time(), counted from the write of the command
    ldeadline,            \* _send_at_command: deadline
    responses,            \* _send_at_command: responses
    lres,                 \* outcome of the last send_packet
    lpayload,             \* payload given to the last send_packet
    stale,                \* lines were pending when the last send_packet was called
    llast                 \* the last step on the radio link

\* main.py: run() and the process (MainSpec)
VARIABLES
    mpc,          \* where run() is: "start", "loop", "get_fix", "send", "sleep", "done"
    gps_bus,      \* the sensor channel (I2CGPS.bus, SerialGPS.ser): "none", "open", "closed"
    startup,      \* how the opening of the channels went
    exit_status,  \* exit status of the process, -1 while it runs
    interval,     \* cfg.send_interval.total_seconds(), in ticks
    sends,        \* calls of lora.send_packet made in this iteration of the loop
    sleep_time,   \* run(): sleep_time of this iteration, -1 before it is computed
    overrun,      \* the previous iteration took longer than the interval
    ended         \* how run() was left: "no", "startup", "interrupt", "error"

\* packet.py: make_packet applied to one fix (PacketSpec)
VARIABLES
    gps_data,   \* make_packet: gps_data, a value or Missing for every key
    packet      \* the bytes make_packet returned, <<>> before the call

gpsVars == <<backend, segs, stream, off, buf, pos, now, deadline, pc, result,
             frames, rejected, split, last>>

decVars == <<raw, payload, decoded, fix>>

loraVars == <<transparent, timeout, at_response_timeout, ser, rx, tx, lpc, lnow,
              ldeadline, responses, lres, lpayload, stale, llast>>

mainVars == <<mpc, gps_bus, startup, exit_status, interval, sends, sleep_time,
              overrun, ended>>

pktVars == <<gps_data, packet>>

nonGpsVars == <<decVars, loraVars, mainVars, pktVars>>

nonLoraVars == <<gpsVars, decVars, mainVars, pktVars>>

vars == <<gpsVars, decVars, loraVars, mainVars, pktVars>>

NoLast == [op |-> "none", branch |-> "none", idx |-> -1]

\* cfg.send_interval: timedelta(seconds=1); a second is two ticks
Interval == 2

\* no decoder run of its own is under way
DecIdle ==
    /\ raw = SamplePos
    /\ payload = <<>>
    /\ decoded = FALSE
    /\ fix = NoFix

LNoLast == [op |-> "none", fault |-> "none", line |-> <<>>]

\* a radio link that is constructed, not opened and not used
LoraIdle ==
    /\ transparent = FALSE
    /\ timeout = Timeout
    /\ at_response_timeout = Timeout
    /\ ser = "none"
    /\ rx = <<>>
    /\ tx = <<>>
    /\ lpc = "idle"
    /\ lnow = 0
    /\ ldeadline = 0
    /\ responses = <<>>
    /\ lres = "none"
    /\ lpayload = <<>>
    /\ stale = FALSE
    /\ llast = LNoLast

\* a value of a fix dictionary or of a packet: None, a number, a string or
\* an inertial sample; Missing stands for a key the dictionary does not have
None == [t |-> "null", v |-> 0]

Missing == [t |-> "missing", v |-> 0]

\* make_packet is not under way
PktIdle ==
    /\ gps_data = [stamp |-> Missing]
    /\ packet = <<>>

\* run() has not started
MainIdle ==
    /\ mpc = "start"
    /\ gps_bus = "none"
    /\ startup = "pending"
    /\ exit_status = -1
    /\ interval = Interval
    /\ sends = 0
    /\ sleep_time = -1
    /\ overrun = FALSE
    /\ ended = "no"

Init ==
    /\ backend \in {"i2c", "serial"}
    /\ segs \in (IF backend = "i2c" THEN Scripts ELSE {<<>>})
    /\ stream = Stream(segs)
    /\ off = 0
    /\ buf = <<>>
    /\ pos = <<>>
    /\ now = 0
    /\ deadline = 0
    /\ pc = "idle"
    /\ result = NoFix
    /\ frames = <<>>
    /\ rejected = {}
    /\ split = FALSE
    /\ last = NoLast
    /\ DecIdle
    /\ LoraIdle
    /\ MainIdle
    /\ PktIdle

\* ------------------------------------------------------------------------
\* get_fix
\* ------------------------------------------------------------------------
\* mutant: every call starts with an empty buffer
entry_buf_cleared(b) == <<>>

\* self._buf is created in __init__ and get_fix only extends it: a call
\* starts with what the last one left
entry_buf(b) == b

\* deadline = time.time() + self.timeout.  Only differences of time.time()
\* are used, so the clock's origin is put at the entry of the call.
GetFixEnter ==
    /\ pc = "idle"
    /\ now' = 0
    /\ deadline' = now' + Timeout
    /\ pc' = "loop"
    /\ last' = [NoLast EXCEPT !.op = "enter"]
    /\ buf' = entry_buf(buf)
    /\ pos' = entry_buf(pos)
    /\ UNCHANGED <<backend, segs, stream, off, result, frames, rejected, split>>
    /\ UNCHANGED nonGpsVars

\* mutant: one more iteration at the deadline
loop_cond_le == now <= deadline

\* while time.time() < deadline
loop_cond == now < deadline

\* what get_fix does with the value of _try_parse_buf: the value it returns,
\* or Continue when it goes on polling
Continue == [kind |-> "continue", lat |-> 0, lon |-> 0, alt |-> 0]

\* mutant: every validated frame is given to the position decoder
on_parsed_any(parsed) ==
    IF parsed.valid THEN parse_nav_posllh(parsed.payload) ELSE Continue

on_parsed(parsed) ==
    IF parsed.valid
    THEN IF parsed.cls = NAV_CLASS /\ parsed.id = NAV_POSLLH_ID
         THEN parse_nav_posllh(parsed.payload)
         ELSE Continue
    ELSE Continue

\* One iteration of the I2CGPS.get_fix loop: read up to 64 bytes from the bus
\* (n bytes arrive; fail: i2c_rdwr raises), extend _buf, one _try_parse_buf,
\* return on NAV-POSLLH, else sleep.  The iteration takes dt ticks (one tick
\* is the duration of an iteration of this loop).
I2CPoll(n, fail, dt) ==
    /\ backend = "i2c"
    /\ pc = "loop"
    /\ loop_cond
    /\ n <= Len(stream) - off
    /\ n <= ReadSize
    /\ fail => n = 0
    /\ \E chunk \in {SubSeq(stream, off + 1, off + n)} :
       \E r \in {try_parse_buf(buf \o chunk)} :
       \E out \in {on_parsed(r.ret)} :
           /\ off' = off + n
           /\ buf' = DelSlice(buf \o chunk, r.del)
           /\ pos' = DelSlice(pos \o [i \in 1..n |-> off + i], r.del)
           /\ frames' = IF r.ret.valid THEN Append(frames, r.ret) ELSE frames
           /\ rejected' = IF r.branch = "badck"
                          THEN rejected \cup {(pos \o [i \in 1..n |-> off + i])[r.idx + 1]}
                          ELSE rejected
           /\ split' = (split \/ (n > 0 /\ off + n < Len(stream)))
           /\ last' = [op |-> "poll", branch |-> r.branch, idx |-> r.idx]
           /\ IF out.kind = "continue"
              THEN /\ pc' = "loop"
                   /\ UNCHANGED result
              ELSE /\ pc' = "idle"
                   /\ result' = out
    /\ now' = now + dt
    /\ UNCHANGED <<backend, segs, stream, deadline>>
    /\ UNCHANGED nonGpsVars

\* One iteration of the SerialGPS.get_fix loop.  line is what readline and the
\* NMEA parser make of it: "error" (the read raises), "empty", "garbage"
\* (pynmea2.ParseError), "gga", "rmc", "other" (another sentence type).
SerialLines == {"error", "empty", "garbage", "gga", "rmc", "other"}

SerialFix ==
    [kind |-> "fix", lat |-> SamplePos.lat, lon |-> SamplePos.lon, alt |-> SamplePos.height]

serial_line(line) ==
    CASE line = "error" -> NoFix
      [] line \in {"gga", "rmc"} -> SerialFix
      [] OTHER -> Continue

SerialPoll(line, dt) ==
    /\ backend = "serial"
    /\ pc = "loop"
    /\ loop_cond
    /\ \E out \in {serial_line(line)} :
           /\ last' = [op |-> "readline", branch |-> line, idx |-> -1]
           /\ IF out.kind = "continue"
              THEN /\ pc' = "loop"
                   /\ UNCHANGED result
              ELSE /\ pc' = "idle"
                   /\ result' = out
    /\ now' = now + dt
    /\ UNCHANGED <<backend, segs, stream, off, buf, pos, deadline, frames, rejected,
                   split>>
    /\ UNCHANGED nonGpsVars

\* the while condition is false: return None
GetFixTimeout ==
    /\ pc = "loop"
    /\ ~loop_cond
    /\ pc' = "idle"
    /\ result' = NoFix
    /\ last' = [NoLast EXCEPT !.op = "timeout"]
    /\ UNCHANGED <<backend, segs, stream, off, buf, pos, now, deadline,
                   frames, rejected, split>>
    /\ UNCHANGED nonGpsVars

Next ==
    \/ GetFixEnter
    \/ I2CPoll(0, TRUE, 1)
    \/ \E n \in 0..ReadSize : I2CPoll(n, FALSE, 1)
    \/ \E line \in SerialLines, dt \in 1..MaxDt : SerialPoll(line, dt)
    \/ GetFixTimeout

Spec == Init /\ [][Next]_vars

\* the steps of a get_fix call that is under way
GetFixStep ==
    \/ I2CPoll(0, TRUE, 1)
    \/ \E n \in 0..ReadSize : I2CPoll(n, FALSE, 1)
    \/ \E line \in SerialLines, dt \in 1..MaxDt : SerialPoll(line, dt)
    \/ GetFixTimeout

TypeOK ==
    /\ backend \in {"i2c", "serial"}
    /\ off \in 0..Len(stream)
    /\ Len(buf) = Len(pos)
    /\ \A i \in 1..Len(buf) : buf[i] \in 0..255 /\ stream[pos[i]] = buf[i]
    /\ pc \in {"idle", "loop"}
    /\ now \in 0..(Timeout + MaxDt)

\* ------------------------------------------------------------------------
\* Vocabulary of the properties
\* ------------------------------------------------------------------------
\* the step is one iteration of the I2CGPS.get_fix loop
PollStep == backend = "i2c" /\ last'.op = "poll"

\* the buffer after the step's read has been appended: the contents the
\* extraction attempt of the step works on
Fedbuf == buf \o SubSeq(stream, off + 1, off')

\* the stream positions of the bytes of Fedbuf, in buffer order
StepPos == pos \o [i \in 1..(off' - off) |-> off + i]

\* the extraction attempt of the step signalled absence
Absent == frames' = frames

\* a sync marker starts at 0-based offset i of b
SyncAt(b, i) == i + 2 <= Len(b) /\ b[i + 1] = SYNC1 /\ b[i + 2] = SYNC2
HasSync(b) == \E i \in 0..Len(b) : SyncAt(b, i)
FirstSync(b) == CHOOSE i \in 0..Len(b) : SyncAt(b, i) /\ \A j \in 0..(i - 1) : ~SyncAt(b, j)

\* The candidate frame at the first sync marker of b:
\*   has       b holds a sync marker;  i  its 0-based offset
\*   complete  the 6 header bytes and the whole announced span are in b
\*   span      6 + length + 2
\*   sum       the checksum (A, B) of the bytes from class through payload
\*   trail     the two bytes behind the payload
\*   frame     class, id and payload
NoCand ==
    [has |-> FALSE, i |-> -1, complete |-> FALSE, span |-> 0, body |-> <<>>,
     sum |-> <<0, 0>>, trail |-> <<0, 0>>, frame |-> NoFrame]

Cand(b) ==
    IF ~HasSync(b) THEN NoCand
    ELSE LET i == FirstSync(b)
         IN  IF Len(b) < i + 6 THEN [NoCand EXCEPT !.has = TRUE, !.i = i]
             ELSE LET len == b[i + 5] + 256 * b[i + 6]
                  IN  IF Len(b) < i + 6 + len + 2
                      THEN [NoCand EXCEPT !.has = TRUE, !.i = i, !.span = 6 + len + 2]
                      ELSE LET body == SubSeq(b, i + 3, i + 6 + len)
                           IN  [has |-> TRUE, i |-> i, complete |-> TRUE,
                                span |-> 6 + len + 2,
                                body |-> body,
                                sum |-> <<DevCkA(body), DevCkB(body)>>,
                                trail |-> SubSeq(b, i + 6 + len + 1, i + 6 + len + 2),
                                frame |-> [valid |-> TRUE, cls |-> b[i + 3], id |-> b[i + 4],
                                           payload |-> SubSeq(b, i + 7, i + 6 + len)]]

\* P holds of every iteration of the I2CGPS.get_fix loop, where P is given the
\* buffer b the extraction attempt works on, the stream positions sp of its
\* bytes and the candidate frame c at its first sync marker
AtPoll(P(_, _, _)) ==
    PollStep =>
        \E b \in {Fedbuf} : \E sp \in {StepPos} : \E c \in {Cand(b)} : P(b, sp, c)

\* b without its bytes at 0-based offsets from .. to-1
Cut(b, from, to) == SubSeq(b, 1, from) \o SubSeq(b, to + 1, Len(b))

\* the last two bytes of b, or b when it is shorter
LastTwo(b) == IF Len(b) <= 2 THEN b ELSE SubSeq(b, Len(b) - 1, Len(b))

\* ------------------------------------------------------------------------
\* Properties
\* ------------------------------------------------------------------------
\* the bus delivers exactly one valid frame, starting from an empty buffer
OneFrameRun == backend = "i2c" /\ Len(segs) = 1 /\ SegFrame(segs[1]).valid

\* C1: alignment independence.  When the bus delivers one valid frame into an
\* empty buffer, in any split into chunks with an extraction attempt after each
\* chunk, no frame is extracted before the last chunk, and once the last chunk
\* is in exactly one frame has been extracted, it has the class, id and
\* payload of the frame sent (the result of single-chunk delivery), and the
\* buffer is empty.
C1_AlignmentIndependence ==
    OneFrameRun =>
        /\ off < Len(stream) => frames = <<>> /\ buf = SubSeq(stream, 1, off)
        /\ off = Len(stream) => frames = <<SegFrame(segs[1])>> /\ buf = <<>>

\* the frame came in more than one chunk
C1_Witness ==
    /\ OneFrameRun
    /\ split
    /\ off = Len(stream)
    /\ frames = <<SegFrame(segs[1])>>
    /\ buf = <<>>

\* C2: when the frame at the first sync marker is complete and its two
\* trailing bytes differ from the checksum, the attempt signals absence and
\* removes exactly the two sync bytes at that position; the bytes before and
\* after stay, in order, and get_fix goes on (nothing is raised or returned).
BadChecksumDropsSync(b, sp, c) ==
    (c.complete /\ c.trail # c.sum) =>
        /\ Absent
        /\ buf' = Cut(b, c.i, c.i + 2)
        /\ pc' = "loop"
        /\ result' = result

C2_BadChecksumDropsSync ==
    [][AtPoll(BadChecksumDropsSync)]_vars

\* a marker was rejected with bytes in front of it and behind it
C2_Witness ==
    /\ last.op = "poll"
    /\ last.branch = "badck"
    /\ last.idx > 0
    /\ Len(buf) > last.idx

\* one extraction attempt on buffer contents b, and up to k of them in a row
\* without new input, stopping at the first that changes nothing
Attempt(b) == DelSlice(b, try_parse_buf(b).del)

RECURSIVE Drain(_, _)
Drain(b, k) ==
    IF k = 0 THEN b
    ELSE LET s == Attempt(b) IN IF s = b THEN b ELSE Drain(s, k - 1)

Settled(b) == Attempt(b) = b

\* exactly one of the two checksum bytes of the candidate frame is wrong
OneBadCkByte(c) == (c.trail[1] = c.sum[1]) # (c.trail[2] = c.sum[2])

ProgressStep(b, sp, c) ==
    /\ (c.complete /\ OneBadCkByte(c)) => (Absent /\ rejected' # rejected)
    /\ last'.branch = "badck" => rejected' # rejected
    /\ buf' = b \/ Len(buf') < Len(b)

\* C3: forward progress on garbage.  A complete frame with one corrupted
\* checksum byte makes the attempt signal absence; a sync marker (identified
\* by its position in the byte stream) is rejected for a checksum mismatch at
\* most once; an attempt either leaves the buffer as it is or shortens it, and
\* from any buffer at most Len(buf) attempts without new input reach contents
\* that a further attempt leaves unchanged.
C3_ForwardProgress ==
    /\ [][AtPoll(ProgressStep)]_vars
    /\ [](Settled(Drain(buf, Len(buf))))

\* a corrupted frame was rejected, and then a second marker behind it
C3_Witness ==
    /\ segs \in {<<"badA", "badB">>, <<"badB", "badA">>}
    /\ last.op = "poll"
    /\ last.branch = "badck"
    /\ Cardinality(rejected) >= 2

\* C4 as stated: when the frame at the first sync marker is complete and its
\* checksum matches, the attempt returns its class, id and payload and removes
\* the span from the sync marker through the checksum, leaving the bytes that
\* were not part of that span.
FrameSpanRemoved(b, sp, c) ==
    (c.complete /\ c.trail = c.sum) =>
        /\ frames' = Append(frames, c.frame)
        /\ buf' = Cut(b, c.i, c.i + c.span)

C4_Original == [][AtPoll(FrameSpanRemoved)]_vars

\* C4 (amended): ... the attempt returns the frame's class, id and payload and
\* removes everything from the start of the buffer through the frame's
\* checksum: the span and the bytes in front of its sync marker.  What
\* remains is the bytes behind the span.
FrameAndPrefixRemoved(b, sp, c) ==
    (c.complete /\ c.trail = c.sum) =>
        /\ frames' = Append(frames, c.frame)
        /\ buf' = Cut(b, 0, c.i + c.span)

C4_ValidFrameExtracted == [][AtPoll(FrameAndPrefixRemoved)]_vars

\* a frame was extracted from behind leading bytes
C4_Witness ==
    /\ last.op = "poll"
    /\ last.branch = "frame"
    /\ last.idx > 0
    /\ Len(frames) = 1
    /\ off = Len(stream)
    /\ buf = <<>>

\* C5 as stated: without a sync marker in the buffer the attempt signals
\* absence and leaves at most one byte.
AtMostOneByteKept(b, sp, c) == ~c.has => (Absent /\ Len(buf') <= 1)

C5_Original == [][AtPoll(AtMostOneByteKept)]_vars

\* C5 (amended): without a sync marker in the buffer the attempt signals
\* absence and leaves the last two bytes of the buffer (all of it when it has
\* two bytes or fewer); everything before them is discarded.
LastTwoKept(b, sp, c) ==
    ~c.has => (Absent /\ Len(buf') <= 2 /\ buf' = LastTwo(b))

C5_NoSyncKeepsTail == [][AtPoll(LastTwoKept)]_vars

\* bytes were discarded and two were kept
C5_Witness ==
    /\ last.op = "poll"
    /\ last.branch = "nosync"
    /\ Len(buf) = 2
    /\ off > 2
    /\ frames = <<>>
    /\ rejected = {}

\* The step changes the buffer from b (with stream positions sp) to buf' only
\* by removing bytes whose (1-based) index in b is in may: the bytes left are
\* bytes of b, unaltered and in their order, and every byte of b whose index
\* is outside may is left.
OnlyRemoves(b, sp, may) ==
    IF pos' = sp THEN buf' = b
    ELSE \E kept \in {{pos'[j] : j \in 1..Len(pos')}} :
             /\ Len(buf') = Len(pos')
             /\ \A j \in 1..Len(pos') : buf'[j] = stream[pos'[j]]
             /\ \A j \in 1..(Len(pos') - 1) : pos'[j] < pos'[j + 1]
             /\ kept \subseteq {sp[k] : k \in 1..Len(sp)}
             /\ \A k \in 1..Len(sp) : sp[k] \in kept \/ k \in may

\* C6 as stated: a feed only appends, and a byte leaves the buffer only as
\* part of a frame returned as validated or as noise discarded at a sync point
\* (the two sync bytes of a rejected candidate; the bytes discarded when no
\* sync marker is found are counted as noise too).
MayLeaveAsStated(b, c) ==
    IF ~c.has THEN 1..Len(b)
    ELSE IF ~c.complete THEN {}
    ELSE IF ~Absent THEN (c.i + 1)..(c.i + c.span)
    ELSE {c.i + 1, c.i + 2}

LeavesAsStated(b, sp, c) ==
    \E may \in {MayLeaveAsStated(b, c)} : OnlyRemoves(b, sp, may)

C6_Original == [][AtPoll(LeavesAsStated)]_vars

\* C6 (amended): a feed only appends, and a byte leaves the buffer only
\* (a) when it is part of a frame returned as validated or stands in front of
\* that frame's sync marker, (b) when it is one of the two sync bytes of a
\* candidate rejected for its checksum, or (c) when the buffer holds no sync
\* marker and the byte is not one of its last two.
MayLeave(b, c) ==
    IF ~c.has THEN 1..(Len(b) - 2)
    ELSE IF ~c.complete THEN {}
    ELSE IF ~Absent THEN 1..(c.i + c.span)
    ELSE {c.i + 1, c.i + 2}

LeavesAsFrameOrNoise(b, sp, c) ==
    \E may \in {MayLeave(b, c)} : OnlyRemoves(b, sp, may)

C6_BytesLeaveOnlyAsFrameOrNoise == [][AtPoll(LeavesAsFrameOrNoise)]_vars

\* a candidate was rejected, its remains stayed in the buffer, and a frame was
\* then returned from behind them
C6_Witness ==
    /\ rejected # {}
    /\ last.op = "poll"
    /\ last.branch = "frame"
    /\ last.idx > 0
    /\ frames # <<>>

\* C7: waiting leaves the buffer untouched.  When a sync marker is found but
\* fewer than 6 bytes are available from it, or fewer than the 6 + length + 2
\* bytes of the span its length field announces, the attempt signals absence
\* and the buffer is what it was after the feed.
WaitLeavesBuffer(b, sp, c) ==
    (c.has /\ ~c.complete) =>
        (Absent /\ buf' = b /\ pos' = sp /\ rejected' = rejected)

C7_WaitLeavesBuffer == [][AtPoll(WaitLeavesBuffer)]_vars

\* a header with its length field is in, the announced span is not
C7_Witness ==
    /\ last.op = "poll"
    /\ last.branch = "wait"
    /\ Cand(buf).has
    /\ ~Cand(buf).complete
    /\ Cand(buf).span > 0
    /\ Len(buf) >= Cand(buf).i + 6

\* C8: the checksum of a frame is the pair (A, B) of the sums modulo 256 over
\* the bytes from the class byte through the last payload byte (A the sum of
\* the bytes, B the sum of the successive values of A), and a frame is
\* returned only when (and when) its two trailing bytes are A and B in that
\* order.
ChecksumDecides(b, sp, c) ==
    c.complete =>
        /\ ubx_checksum(c.body) = c.sum
        /\ ~Absent <=> c.trail = c.sum

C8_Checksum == [][AtPoll(ChecksumDecides)]_vars

\* a frame with a non-trivial payload passed the checksum
C8_Witness ==
    /\ last.op = "poll"
    /\ last.branch = "frame"
    /\ frames # <<>>
    /\ Len(frames[Len(frames)].payload) >= 2
    /\ frames[Len(frames)].cls # NAV_CLASS

\* C9 as stated: the bus FixSource's get_fix returns absent only once its
\* timeout has elapsed; before the deadline it keeps polling until a fix is
\* produced, whatever frames arrive.
C9_AbsentOnlyAtDeadline ==
    [][(backend = "i2c" /\ pc = "loop" /\ pc' = "idle" /\ result'.kind = "none") =>
          now >= deadline]_vars

\* the step starts a read of the bus or of the serial channel
ReadStep == last'.op \in {"poll", "readline"}

\* a step a call under way can take whatever the channel does
CallCanStep ==
    ENABLED (\/ I2CPoll(0, TRUE, 1)
             \/ \E line \in SerialLines : SerialPoll(line, 1)
             \/ GetFixTimeout)

RawVals == {-2147483647, -740251000, -1, 5000, 407454000, 2147483647}

\* payload lengths handed to the decoder: a full NAV-POSLLH payload has 28
\* bytes; shorter ones are cut off, longer ones carry trailing bytes
DecLens == {0, 27, 28, 29}

\* the sensor's payload for r, cut or extended to n bytes
DecPayload(r, n) ==
    LET full == PosPayload(r.lon, r.lat, r.height)
    IN  IF n <= Len(full) THEN SubSeq(full, 1, n)
        ELSE full \o [i \in 1..(n - Len(full)) |-> 255]

GpsIdle ==
    /\ backend = "i2c"
    /\ segs = <<>>
    /\ stream = <<>>
    /\ off = 0
    /\ buf = <<>>
    /\ pos = <<>>
    /\ now = 0
    /\ deadline = 0
    /\ pc = "idle"
    /\ result = NoFix
    /\ frames = <<>>
    /\ rejected = {}
    /\ split = FALSE
    /\ last = NoLast

DecInit ==
    /\ raw \in [lon : RawVals, lat : RawVals, height : RawVals]
    /\ \E n \in DecLens : payload = DecPayload(raw, n)
    /\ decoded = FALSE
    /\ fix = NoFix
    /\ GpsIdle
    /\ LoraIdle
    /\ MainIdle
    /\ PktIdle

\* one call of _parse_nav_posllh
Decode ==
    /\ ~decoded
    /\ fix' = parse_nav_posllh(payload)
    /\ decoded' = TRUE
    /\ UNCHANGED <<raw, payload>>
    /\ UNCHANGED <<gpsVars, loraVars, mainVars, pktVars>>

DecNext == Decode

DecoderSpec == DecInit /\ [][DecNext]_vars

\* ------------------------------------------------------------------------
\* C11: the decoder declines a payload shorter than 28 bytes (no fix, no
\* error) and produces a fix for every payload of 28 bytes or more.
\* ------------------------------------------------------------------------
C11_ShortPayloadDeclined ==
    decoded => ((fix.kind = "none") <=> (Len(payload) < 28))
                /\ ((fix.kind = "fix") <=> (Len(payload) >= 28))

\* both sides of the limit have been decoded: here the 28-byte payload
C11_Witness == decoded /\ Len(payload) = 28 /\ fix.kind = "fix"

\* ------------------------------------------------------------------------
\* C12: for a payload of at least 28 bytes, longitude is the signed
\* little-endian 32-bit integer at bytes 4..7, latitude the one at bytes
\* 8..11, height the one at bytes 12..15, scaled by 1e-7, 1e-7 and 1/1000;
\* raw (-740251000, 407454000, 5000) gives (-74.0251, 40.7454, 5.0).
\* ------------------------------------------------------------------------
\* the two's complement value of four little-endian bytes
Signed32(b) ==
    LET low == b[1] + 256 * b[2] + 65536 * b[3]
    IN  IF b[4] < 128 THEN low + 16777216 * b[4]
        ELSE (low - 16777216) + 16777216 * (b[4] - 255)

\* x thousandths or ten-thousandths as a count of units
Frac(x, den, unit) == x * (unit \div den)

C12_FieldsAndScaling ==
    (decoded /\ Len(payload) >= 28) =>
        /\ fix.lon = Signed32(SubSeq(payload, 5, 8))
        /\ fix.lat = Signed32(SubSeq(payload, 9, 12))
        /\ fix.alt = Signed32(SubSeq(payload, 13, 16))
        /\ fix.lon = raw.lon /\ fix.lat = raw.lat /\ fix.alt = raw.height
        /\ (raw = SamplePos =>
               /\ fix.lat = Frac(407454, 10000, LatLonUnit)
               /\ fix.lon = Frac(-740251, 10000, LatLonUnit)
               /\ fix.alt = Frac(5, 1, AltUnit))

C12_Witness ==
    decoded /\ Len(payload) >= 28 /\ raw = SamplePos /\ fix.lon < 0 /\ fix.lat > 0

\* ------------------------------------------------------------------------
\* LoRaSerial: text handling.  Bytes are integers 0..255 and the characters
\* of a Python str are their code points.
\* ------------------------------------------------------------------------
\* longest timeout a radio link is constructed with, in ticks
MaxLTimeout == 3
\* number of lines the HAT can have pending on the channel
MaxRx == 2

\* 1.0 in max(timeout, 1.0): one second in ticks
AtFloor == 2

CR == 13
LF == 10
CRLF == <<CR, LF>>

IsAscii(c) == c < 128
NotCRLF(c) == c # CR /\ c # LF

\* characters str.strip() removes
Whitespace == {9, 10, 11, 12, 13, 28, 29, 30, 31, 32}

RECURSIVE LStrip(_)
LStrip(t) == IF t # <<>> /\ Head(t) \in Whitespace THEN LStrip(Tail(t)) ELSE t

RECURSIVE RStrip(_)
RStrip(t) ==
    IF t # <<>> /\ t[Len(t)] \in Whitespace THEN RStrip(SubSeq(t, 1, Len(t) - 1)) ELSE t

\* str.strip()
strip(t) == RStrip(LStrip(t))

\* str.upper() on ASCII text
upper(t) == [i \in 1..Len(t) |-> IF t[i] \in 97..122 THEN t[i] - 32 ELSE t[i]]

\* token in text
Contains(t, token) ==
    \E i \in 0..(Len(t) - Len(token)) : SubSeq(t, i + 1, i + Len(token)) = token

\* bytes.decode("ascii", errors="ignore") and str.encode("ascii",
\* errors="ignore"): what is not ASCII is dropped
ascii_ignore(t) == SelectSeq(t, IsAscii)

TokOK == <<79, 75>>
TokSEND == <<83, 69, 78, 68>>
TokERROR == <<69, 82, 82, 79, 82>>
TokFAIL == <<70, 65, 73, 76>>

\* mutant: SEND does not end the collection
is_terminal_nosend(text) ==
    \E token \in {TokOK, TokERROR, TokFAIL} : Contains(upper(text), token)

\* any(token in upper for token in ("OK", "SEND", "ERROR", "FAIL"))
is_terminal(text) ==
    \E token \in {TokOK, TokSEND, TokERROR, TokFAIL} : Contains(upper(text), token)

\* mutant: only OK counts as success
is_success_okonly(resp) ==
    \E i \in 1..Len(resp) : Contains(upper(resp[i].text), TokOK)

\* any("OK" in line.upper() or "SEND" in line.upper() for line in responses)
is_success(resp) ==
    \E i \in 1..Len(resp) :
        Contains(upper(resp[i].text), TokOK) \/ Contains(upper(resp[i].text), TokSEND)

\* payload.decode("utf-8") for payloads made of ASCII bytes and two-byte
\* sequences (a lead byte C2..DF and a continuation byte 80..BF); any other
\* byte of 80..FF is a UnicodeDecodeError.  ok: decoded; chars: the text.
RECURSIVE decode_utf8(_)
decode_utf8(b) ==
    IF b = <<>> THEN [ok |-> TRUE, chars |-> <<>>]
    ELSE IF b[1] < 128
    THEN LET rest == decode_utf8(Tail(b))
         IN  [ok |-> rest.ok, chars |-> <<b[1]>> \o rest.chars]
    ELSE IF b[1] \in 194..223 /\ Len(b) >= 2 /\ b[2] \in 128..191
    THEN LET rest == decode_utf8(SubSeq(b, 3, Len(b)))
         IN  [ok |-> rest.ok, chars |-> <<(b[1] - 192) * 64 + (b[2] - 128)>> \o rest.chars]
    ELSE [ok |-> FALSE, chars |-> <<>>]

\* payload.decode("latin-1"): every byte is the character of that code
decode_latin1(b) == b

\* str(n): decimal digits of n >= 0
RECURSIVE str_int(_)
str_int(n) == IF n < 10 THEN <<48 + n>> ELSE str_int(n \div 10) \o <<48 + (n % 10)>>

\* "AT+SEND="
AtSend == <<65, 84, 43, 83, 69, 78, 68, 61>>
Comma == 44

\* _build_at_send_command
build_at_send_command(p) ==
    LET dec == decode_utf8(p)
        payload_str == IF dec.ok THEN dec.chars ELSE decode_latin1(p)
        sanitized == SelectSeq(payload_str, NotCRLF)
        cmd == AtSend \o str_int(Len(p)) \o <<Comma>> \o sanitized
    IN  ascii_ignore(cmd)

\* if not command.endswith(b"\r\n"): command += b"\r\n"
with_crlf(command) ==
    IF Len(command) >= 2 /\ SubSeq(command, Len(command) - 1, Len(command)) = CRLF
    THEN command ELSE command \o CRLF

\* mutant: the floor is not applied
init_at_response_timeout_nofloor(t) == t

\* self._at_response_timeout = max(timeout, 1.0)
init_at_response_timeout(t) == IF t > AtFloor THEN t ELSE AtFloor

\* ------------------------------------------------------------------------
\* LoRaSerial: callers and the HAT (environment)
\* ------------------------------------------------------------------------
PayloadNames == {"json", "crlf", "utf8", "bad"}

\* payloads given to send_packet: {"lat":40}; a<CR><LF>b; a followed by
\* e-acute in UTF-8; the byte FF (not UTF-8) followed by b
PayloadBytes(name) ==
    CASE name = "json" -> <<123, 34, 108, 97, 116, 34, 58, 52, 48, 125>>
      [] name = "crlf" -> <<97, CR, LF, 98>>
      [] name = "utf8" -> <<97, 195, 169>>
      [] name = "bad"  -> <<255, 98>>

LineNames == {"OK", "Sending", "ERROR", "fail", "BUSY", "blank"}

\* lines the HAT sends: OK, +Sending, ERROR, fail, BUSY, each ended by CRLF,
\* and an empty line
LineBytes(name) ==
    CASE name = "OK"      -> TokOK \o CRLF
      [] name = "Sending" -> <<43, 83, 101, 110, 100, 105, 110, 103>> \o CRLF
      [] name = "ERROR"   -> TokERROR \o CRLF
      [] name = "fail"    -> <<102, 97, 105, 108>> \o CRLF
      [] name = "BUSY"    -> <<66, 85, 83, 89>> \o CRLF
      [] name = "blank"   -> CRLF

\* failures of the channel during one send_packet
SendFaults == {"none", "open", "in_waiting", "write", "flush"}

\* ------------------------------------------------------------------------
\* LoRaSerial
\* ------------------------------------------------------------------------
\* __init__
LoraInit ==
    /\ transparent \in BOOLEAN
    /\ timeout \in {0, AtFloor, MaxLTimeout}
    /\ at_response_timeout = init_at_response_timeout(timeout)
    /\ ser = "none"
    /\ rx = <<>>
    /\ tx = <<>>
    /\ lpc = "idle"
    /\ lnow = 0
    /\ ldeadline = 0
    /\ responses = <<>>
    /\ lres = "none"
    /\ lpayload = <<>>
    /\ stale = FALSE
    /\ llast = LNoLast
    /\ GpsIdle
    /\ DecIdle
    /\ MainIdle
    /\ PktIdle

\* open(): serial.Serial(...) returns a port (ok) or raises
LoraOpen(ok) ==
    /\ lpc = "idle"
    /\ ser # "open"
    /\ ser' = IF ok THEN "open" ELSE ser
    /\ llast' = [op |-> "open", fault |-> IF ok THEN "none" ELSE "open", line |-> <<>>]
    /\ UNCHANGED <<transparent, timeout, at_response_timeout, rx, tx, lpc, lnow,
                   ldeadline, responses, lres, lpayload, stale>>
    /\ UNCHANGED nonLoraVars

\* close()
LoraClose ==
    /\ lpc = "idle"
    /\ ser' = IF ser = "open" THEN "closed" ELSE ser
    /\ rx' = <<>>
    /\ llast' = [op |-> "close", fault |-> "none", line |-> <<>>]
    /\ UNCHANGED <<transparent, timeout, at_response_timeout, tx, lpc, lnow,
                   ldeadline, responses, lres, lpayload, stale>>
    /\ UNCHANGED nonLoraVars

\* the HAT sends a line
DeviceEmit(name) ==
    /\ ser = "open"
    /\ Len(rx) < MaxRx
    /\ rx' = Append(rx, [line |-> LineBytes(name), old |-> FALSE])
    /\ llast' = [op |-> "emit", fault |-> "none", line |-> LineBytes(name)]
    /\ UNCHANGED <<transparent, timeout, at_response_timeout, ser, tx, lpc, lnow,
                   ldeadline, responses, lres, lpayload, stale>>
    /\ UNCHANGED nonLoraVars

\* mutant: a short write is a failure
transparent_ok_full(bytes_written, n) == bytes_written >= n

\* transparent mode: "No response expected in transparent mode - assume
\* success": return True
transparent_ok(bytes_written, n) == TRUE

\* mutant: the pending bytes are left on the channel
stale_discard_keep(pending) == pending

\* if self.ser.in_waiting: self.ser.reset_input_buffer()
stale_discard(pending) == IF Len(pending) > 0 THEN <<>> ELSE pending

\* the value send_packet returns for the collected responses
classify(resp) ==
    IF resp = <<>> THEN "false"
    ELSE IF is_success(resp) THEN "true" ELSE "false"

\* send_packet(payload) up to its return (transparent mode, or a failure) or
\* up to the head of the response loop of _send_at_command (command mode).
\* fault: the channel operation that raises; short: write accepts one byte
\* less than it was given.  The lines pending at the call are marked old.
\* mutant: the command path whatever the mode
use_transparent_never(flag) == FALSE

\* if self.transparent:
use_transparent(flag) == flag

send_packet(pn, fault, short) ==
    /\ lpc = "idle"
    /\ fault = "open" => ser = "none"
    /\ fault = "in_waiting" => ~transparent
    /\ short => transparent /\ fault \in {"none", "flush"}
    /\ \E p \in {PayloadBytes(pn)} :
       \E f \in {IF ser = "closed" THEN "closed" ELSE fault} :
       \E k \in {IF short THEN Len(p) - 1 ELSE Len(p)} :
       \E rxo \in {[i \in DOMAIN rx |-> [rx[i] EXCEPT !.old = TRUE]]} :
           /\ lpayload' = p
           /\ stale' = (rx # <<>>)
           /\ responses' = <<>>
           /\ llast' = [op |-> "send", fault |-> f, line |-> <<>>]
           /\ lnow' = 0
           /\ IF f = "open"
              THEN \* self.open() raises before the try block is entered
                   /\ lres' = "raised"
                   /\ tx' = <<>>
                   /\ UNCHANGED <<ser, rx, lpc, ldeadline>>
              ELSE /\ ser' = IF ser = "none" THEN "open" ELSE ser
                   /\ IF use_transparent(transparent)
                      THEN /\ rx' = rxo
                           /\ tx' = IF f \in {"closed", "write"} THEN <<>>
                                    ELSE <<SubSeq(p, 1, k)>>
                           /\ lres' = IF f # "none" THEN "false"
                                      ELSE IF transparent_ok(k, Len(p)) THEN "true"
                                      ELSE "false"
                           /\ UNCHANGED <<lpc, ldeadline>>
                      ELSE /\ rx' = IF f \in {"closed", "in_waiting"} THEN rxo
                                    ELSE stale_discard(rxo)
                           /\ tx' = IF f \in {"closed", "in_waiting", "write"} THEN <<>>
                                    ELSE <<with_crlf(build_at_send_command(p))>>
                           /\ IF f # "none"
                              THEN /\ lres' = "false"
                                   /\ UNCHANGED <<lpc, ldeadline>>
                              ELSE /\ lres' = "pending"
                                   /\ lpc' = "collect"
                                   /\ ldeadline' = lnow' + at_response_timeout
    /\ UNCHANGED <<transparent, timeout, at_response_timeout>>

\* a call of send_packet on a link that is used on its own
SendPacket(pn, fault, short) == send_packet(pn, fault, short) /\ UNCHANGED nonLoraVars

\* what readline returns when no line is pending: a line that arrives while
\* it blocks, or nothing after the read timeout
Arrivals == LineNames \cup {"nothing"}

\* One iteration of the response loop of _send_at_command: readline returns
\* the first pending line, or a line that arrives while it blocks (arrive),
\* or nothing after the read timeout, or raises (fault); a line that is not
\* empty after strip() is collected, and a terminal token ends the loop.
CollectPoll(fault, arrive) ==
    /\ lpc = "collect"
    /\ lnow < ldeadline
    /\ arrive # "nothing" => (rx = <<>> /\ ~fault)
    /\ IF fault
       THEN /\ lres' = "false"
            /\ lpc' = "idle"
            /\ lnow' = lnow + 1
            /\ llast' = [op |-> "poll", fault |-> "read", line |-> <<>>]
            /\ UNCHANGED <<rx, responses>>
       ELSE IF rx = <<>> /\ arrive = "nothing"
       THEN /\ lnow' = lnow + (IF timeout > 1 THEN timeout ELSE 1)
            /\ llast' = [op |-> "poll", fault |-> "none", line |-> <<>>]
            /\ UNCHANGED <<rx, responses, lres, lpc>>
       ELSE \E item \in {IF rx = <<>> THEN [line |-> LineBytes(arrive), old |-> FALSE]
                         ELSE Head(rx)} :
            \E text \in {strip(ascii_ignore(item.line))} :
            \E resp \in {IF text = <<>> THEN responses
                         ELSE Append(responses, [text |-> text, old |-> item.old])} :
                /\ rx' = IF rx = <<>> THEN rx ELSE Tail(rx)
                /\ responses' = resp
                /\ lnow' = lnow + 1
                /\ llast' = [op |-> "poll", fault |-> "none", line |-> item.line]
                /\ IF text # <<>> /\ is_terminal(text)
                   THEN /\ lres' = classify(resp)
                        /\ lpc' = "idle"
                   ELSE UNCHANGED <<lres, lpc>>
    /\ UNCHANGED <<transparent, timeout, at_response_timeout, ser, tx, ldeadline,
                   lpayload, stale>>
    /\ UNCHANGED nonLoraVars

\* the response deadline has passed: return responses
CollectTimeout ==
    /\ lpc = "collect"
    /\ ~(lnow < ldeadline)
    /\ lres' = classify(responses)
    /\ lpc' = "idle"
    /\ llast' = [op |-> "timeout", fault |-> "none", line |-> <<>>]
    /\ UNCHANGED <<transparent, timeout, at_response_timeout, ser, rx, tx, lnow,
                   ldeadline, responses, lpayload, stale>>
    /\ UNCHANGED nonLoraVars

LoraNext ==
    \/ \E ok \in BOOLEAN : LoraOpen(ok)
    \/ LoraClose
    \/ \E name \in LineNames : DeviceEmit(name)
    \/ \E pn \in PayloadNames, fault \in SendFaults, short \in BOOLEAN :
           SendPacket(pn, fault, short)
    \/ \E fault \in BOOLEAN, arrive \in Arrivals : CollectPoll(fault, arrive)
    \/ CollectTimeout

LoraSpec == LoraInit /\ [][LoraNext]_vars

LoraTypeOK ==
    /\ ser \in {"none", "open", "closed"}
    /\ lpc \in {"idle", "collect"}
    /\ lres \in {"none", "pending", "true", "false", "raised"}
    /\ Len(rx) <= MaxRx
    /\ Len(tx) <= 1
    /\ lnow \in 0..(2 * MaxLTimeout + AtFloor)

\* ------------------------------------------------------------------------
\* Vocabulary of the properties of the radio link
\* ------------------------------------------------------------------------
\* the step is a call of send_packet
SendStep == llast'.op = "send"

\* the step is the return of a command-mode send_packet that has collected
\* its responses (no channel operation raised)
CollectReturn == lpc = "collect" /\ lpc' = "idle" /\ llast'.fault = "none"

\* text contains token, whatever the case of its letters
HasToken(text, token) ==
    \E i \in 0..(Len(text) - Len(token)) :
        \A j \in 1..Len(token) :
            text[i + j] = token[j] \/ text[i + j] = token[j] + 32

LetterOK == <<79, 75>>
LetterSEND == <<83, 69, 78, 68>>
LetterERROR == <<69, 82, 82, 79, 82>>
LetterFAIL == <<70, 65, 73, 76>>

HasOkOrSend(text) == HasToken(text, LetterOK) \/ HasToken(text, LetterSEND)

HasTerminalToken(text) ==
    \/ HasOkOrSend(text)
    \/ HasToken(text, LetterERROR)
    \/ HasToken(text, LetterFAIL)

\* ------------------------------------------------------------------------
\* C13: a command-mode send reports success exactly when some collected line
\* contains OK or SEND (in any case); a reply OK read before the response
\* deadline gives success, and no reply before the deadline gives failure
\* with an empty collected response.
\* ------------------------------------------------------------------------
C13_SuccessIffOkOrSend ==
    [][CollectReturn =>
          /\ lres' \in {"true", "false"}
          /\ (lres' = "true") <=>
                 (\E i \in 1..Len(responses') : HasOkOrSend(responses'[i].text))
          /\ (llast'.op = "poll" /\ llast'.line = <<79, 75, 13, 10>>) => lres' = "true"
          /\ (llast'.op = "timeout" /\ responses = <<>>) =>
                 (lres' = "false" /\ responses' = <<>>)
      ]_vars

\* the HAT answered BUSY and then +Sending, and send_packet returned True
C13_Witness ==
    /\ ~transparent /\ lpc = "idle" /\ lres = "true"
    /\ Len(responses) = 2
    /\ llast.op = "poll"
    /\ llast.line = <<43, 83, 101, 110, 100, 105, 110, 103, 13, 10>>

\* ------------------------------------------------------------------------
\* C14: response collection reads lines until the first non-empty line that
\* contains OK, SEND, ERROR or FAIL (in any case) or until the response
\* deadline has passed; it always terminates; at most one collected line
\* contains a terminal token, and that line is the last one.
\* ------------------------------------------------------------------------
\* the loop can always take its next step
CollectCanStep ==
    ENABLED (CollectPoll(TRUE, "nothing") \/ CollectPoll(FALSE, "nothing")
             \/ CollectTimeout)

C14_CollectUntilTerminal ==
    /\ [](\A i \in 1..Len(responses) :
             /\ responses[i].text # <<>>
             /\ HasTerminalToken(responses[i].text) =>
                    (i = Len(responses) /\ lpc = "idle"))
    /\ [](lpc = "collect" => (CollectCanStep /\ lnow <= ldeadline + MaxLTimeout))
    /\ [][(lpc = "collect" /\ llast'.op = "poll") =>
             /\ lnow < ldeadline /\ lnow' > lnow /\ ldeadline' = ldeadline
             /\ (lpc' = "idle" /\ llast'.fault = "none") <=>
                    (Len(responses') = Len(responses) + 1
                        /\ HasTerminalToken(responses'[Len(responses')].text))
         ]_vars
    /\ [][(lpc = "collect" /\ llast'.op = "timeout") =>
             (lnow >= ldeadline /\ lpc' = "idle" /\ responses' = responses)]_vars

\* a line without a terminal token was collected, then SENDING ended the loop
C14_Witness ==
    /\ lpc = "idle" /\ Len(responses) = 2
    /\ ~HasTerminalToken(responses[1].text)
    /\ HasToken(responses[2].text, LetterSEND)
    /\ lnow < ldeadline

\* ------------------------------------------------------------------------
\* C15: in command mode the bytes unread on the channel when send is called
\* are discarded before the command is written: none of them appears in the
\* collected response of that send.
\* ------------------------------------------------------------------------
C15_StaleDiscarded ==
    /\ [](\A i \in 1..Len(responses) : ~responses[i].old)
    /\ [][(SendStep /\ ~transparent /\ llast'.fault \in {"none", "write", "flush"}) =>
             rx' = <<>>]_vars

\* lines were pending at the call, and the response collected is a later one
C15_Witness ==
    /\ ~transparent /\ stale /\ lpc = "idle" /\ responses # <<>>
    /\ lres = "false" /\ llast.op = "poll"

\* ------------------------------------------------------------------------
\* C16: in command mode each send writes exactly one command,
\* AT+SEND=<n>,<text> followed by CRLF, where n is the decimal byte length
\* of the payload and text is the decoded payload with every CR and LF
\* removed.
\* ------------------------------------------------------------------------
\* the decoded payload without its CR and LF characters
DecodedSansCRLF(p) ==
    LET dec == decode_utf8(p)
    IN  SelectSeq(IF dec.ok THEN dec.chars ELSE decode_latin1(p), NotCRLF)

C16_CommandFormat ==
    (~transparent /\ llast.op = "send" /\ llast.fault \in {"none", "flush"}) =>
        tx = << <<65, 84, 43, 83, 69, 78, 68, 61>> \o str_int(Len(lpayload)) \o <<44>>
                  \o DecodedSansCRLF(lpayload) \o <<13, 10>> >>

\* ------------------------------------------------------------------------
\* C17: a transparent-mode send writes the payload, flushes, and reports
\* success whenever write and flush raise nothing, also when the channel
\* accepted fewer bytes than requested; it never reads from the channel and
\* never waits for a response.
\* ------------------------------------------------------------------------
\* the pending lines, whatever their marks
Lines(pending) == [i \in DOMAIN pending |-> pending[i].line]

C17_TransparentSend ==
    [][(SendStep /\ transparent) =>
          /\ lpc' = "idle"
          /\ Lines(rx') = Lines(rx)
          /\ responses' = <<>>
          /\ llast'.fault = "none" =>
                 /\ lres' = "true"
                 /\ Len(tx') = 1
                 /\ Len(tx'[1]) \in {Len(lpayload'), Len(lpayload') - 1}
                 /\ tx'[1] = SubSeq(lpayload', 1, Len(tx'[1]))
          /\ llast'.fault \in {"write", "flush", "closed"} => lres' = "false"
      ]_vars

\* the channel took one byte less than the payload and send returned True,
\* with a line of the HAT left unread
C17_Witness ==
    /\ transparent /\ llast.op = "send" /\ llast.fault = "none" /\ lres = "true"
    /\ Len(tx[1]) < Len(lpayload)
    /\ rx # <<>>

\* ------------------------------------------------------------------------
\* C18: a channel failure during send (opening the channel on first use,
\* write, flush or read) makes send return False; no exception reaches the
\* caller.
\* ------------------------------------------------------------------------
C18_FailureIsFalse ==
    (llast.op \in {"send", "poll"} /\ llast.fault # "none") => lres = "false"

\* ------------------------------------------------------------------------
\* C19: the time allowed for collecting the response is max(t, 1 second) for
\* every configured read timeout t, so never less than 1 second.
\* ------------------------------------------------------------------------
Max(a, b) == IF a >= b THEN a ELSE b

C19_ResponseFloor ==
    /\ [](at_response_timeout = Max(timeout, 2) /\ at_response_timeout >= 2)
    /\ [][(SendStep /\ lpc' = "collect") =>
             ldeadline' - lnow' = Max(timeout, 2)]_vars
    /\ [][(lpc = "collect" /\ llast'.op = "timeout") => lnow >= Max(timeout, 2)]_vars

\* a link with a read timeout below one second gave up only after a second
C19_Witness ==
    /\ ~transparent /\ timeout < 2 /\ llast.op = "timeout" /\ lnow >= 2
    /\ lres = "false" /\ responses = <<>>

\* ------------------------------------------------------------------------
\* main.py: run() and the process
\* ------------------------------------------------------------------------
\* what the sensor sends during a run of the whole program: one segment
MainScripts == {<<name>> : name \in SegNames}

\* lines of the HAT during a run of the whole program
MainLines == {"OK", "BUSY"}

\* cfg.send_interval: the default, or the value of --interval
Intervals == {Interval, Interval + Interval}

\* run() up to the first try: the backends are constructed, with
\* timeout=cfg.serial_timeout for both and transparent=cfg.lora_transparent_mode
MainInit ==
    /\ backend \in {"i2c", "serial"}
    /\ segs \in (IF backend = "i2c" THEN MainScripts ELSE {<<>>})
    /\ stream = Stream(segs)
    /\ off = 0
    /\ buf = <<>>
    /\ pos = <<>>
    /\ now = 0
    /\ deadline = 0
    /\ pc = "idle"
    /\ result = NoFix
    /\ frames = <<>>
    /\ rejected = {}
    /\ split = FALSE
    /\ last = NoLast
    /\ transparent \in BOOLEAN
    /\ timeout = Timeout
    /\ at_response_timeout = init_at_response_timeout(timeout)
    /\ ser = "none"
    /\ rx = <<>>
    /\ tx = <<>>
    /\ lpc = "idle"
    /\ lnow = 0
    /\ ldeadline = 0
    /\ responses = <<>>
    /\ lres = "none"
    /\ lpayload = <<>>
    /\ stale = FALSE
    /\ llast = LNoLast
    /\ DecIdle
    /\ PktIdle
    /\ mpc = "start"
    /\ gps_bus = "none"
    /\ startup = "pending"
    /\ exit_status = -1
    /\ interval \in Intervals
    /\ sends = 0
    /\ sleep_time = -1
    /\ overrun = FALSE
    /\ ended = "no"

\* the status the process exits with when run() returns: the script ends
\* after run(args), so the interpreter exits with 0
returned_status == 0

\* the status the process exits with when an exception leaves run()
raised_status == 1

\* mutant: close() that leaves the channel as it is
close_handle_skip(h) == h

\* close(): if self.ser and self.ser.is_open: self.ser.close()   (LoRaSerial,
\* SerialGPS);  if self.bus: self.bus.close()   (I2CGPS)
close_handle(h) == IF h = "open" THEN "closed" ELSE h

\* mutant: the branch is taken whatever get_fix returned
has_data_always(data) == TRUE

\* if data:
has_data(data) == data.kind = "fix"

\* elapsed = time.time() - start: the time get_fix took and, when a packet
\* was sent in this iteration, the time send_packet took
elapsed == now + (IF sends > 0 THEN lnow ELSE 0)

\* mutant: the remainder of the interval without the floor
sleep_for_nofloor(iv, el) == iv - el

\* sleep_time = max(0, cfg.send_interval.total_seconds() - elapsed)
sleep_for(iv, el) == IF iv - el > 0 THEN iv - el ELSE 0

\* try: gps.open(); lora.open()  except Exception: log.exception(...); return
\* gpsOk, loraOk: whether the channel can be opened
MainStartup(gpsOk, loraOk) ==
    /\ mpc = "start"
    /\ ~gpsOk => loraOk
    /\ gps_bus' = IF gpsOk THEN "open" ELSE gps_bus
    /\ ser' = IF gpsOk /\ loraOk THEN "open" ELSE ser
    /\ startup' = IF ~gpsOk THEN "gps_failed"
                  ELSE IF ~loraOk THEN "lora_failed" ELSE "ok"
    /\ IF gpsOk /\ loraOk
       THEN /\ mpc' = "loop"
            /\ UNCHANGED <<exit_status, ended>>
       ELSE /\ mpc' = "done"
            /\ exit_status' = returned_status
            /\ ended' = "startup"
    /\ UNCHANGED <<interval, sends, sleep_time, overrun>>
    /\ UNCHANGED <<transparent, timeout, at_response_timeout, rx, tx, lpc, lnow,
                   ldeadline, responses, lres, lpayload, stale, llast>>
    /\ UNCHANGED <<gpsVars, decVars, pktVars>>

\* while True: start = time.time(); about to call gps.get_fix()
MainLoopTop ==
    /\ mpc = "loop"
    /\ mpc' = "get_fix"
    /\ last' = NoLast
    /\ sends' = 0
    /\ sleep_time' = -1
    /\ overrun' = (sleep_time # -1 /\ elapsed > interval)
    /\ UNCHANGED <<backend, segs, stream, off, buf, pos, now, deadline, pc, result,
                   frames, rejected, split>>
    /\ UNCHANGED <<gps_bus, startup, exit_status, interval, ended>>
    /\ UNCHANGED <<decVars, loraVars, pktVars>>

\* data = gps.get_fix(): the call
MainGetFixCall == mpc = "get_fix" /\ last.op = "none" /\ GetFixEnter

\* data = gps.get_fix(): a step of the call
MainGetFixStep == mpc = "get_fix" /\ GetFixStep

\* get_fix has returned.  if data: payload = make_packet(data), about to call
\* lora.send_packet(payload); else: log.debug, elapsed and sleep_time are
\* computed, about to sleep
MainGot ==
    /\ mpc = "get_fix"
    /\ pc = "idle"
    /\ last.op # "none"
    /\ IF has_data(result)
       THEN /\ mpc' = "send"
            /\ lres' = "none"
            /\ UNCHANGED sleep_time
       ELSE /\ mpc' = "sleep"
            /\ sleep_time' = sleep_for(interval, elapsed)
            /\ UNCHANGED lres
    /\ UNCHANGED <<transparent, timeout, at_response_timeout, ser, rx, tx, lpc, lnow,
                   ldeadline, responses, lpayload, stale, llast>>
    /\ UNCHANGED <<gps_bus, startup, exit_status, interval, sends, overrun, ended>>
    /\ UNCHANGED <<gpsVars, decVars, pktVars>>

\* ok = lora.send_packet(payload): the call
MainSendCall ==
    /\ mpc = "send"
    /\ lres = "none"
    /\ \E fault \in SendFaults, short \in BOOLEAN : send_packet("json", fault, short)
    /\ sends' = sends + 1
    /\ UNCHANGED <<mpc, gps_bus, startup, exit_status, interval, sleep_time, overrun,
                   ended>>
    /\ UNCHANGED <<gpsVars, decVars, pktVars>>

\* ok = lora.send_packet(payload): a step of the response loop
MainSendStep ==
    /\ mpc = "send"
    /\ \/ \E fault \in BOOLEAN : CollectPoll(fault, "nothing")
       \/ CollectTimeout

\* the HAT answers while a send is under way
MainDevice == mpc = "send" /\ \E name \in MainLines : DeviceEmit(name)

\* finally: lora.close(); gps.close()
finally_close ==
    /\ ser' = close_handle(ser)
    /\ gps_bus' = close_handle(gps_bus)

\* send_packet has returned: log, elapsed and sleep_time are computed, about
\* to sleep; an exception out of send_packet leaves the loop through finally
MainSent ==
    /\ mpc = "send"
    /\ lpc = "idle"
    /\ lres \in {"true", "false", "raised"}
    /\ IF lres = "raised"
       THEN /\ mpc' = "done"
            /\ exit_status' = raised_status
            /\ ended' = "error"
            /\ finally_close
            /\ UNCHANGED sleep_time
       ELSE /\ mpc' = "sleep"
            /\ sleep_time' = sleep_for(interval, elapsed)
            /\ UNCHANGED <<ser, gps_bus, exit_status, ended>>
    /\ UNCHANGED <<startup, interval, sends, overrun>>
    /\ UNCHANGED <<transparent, timeout, at_response_timeout, rx, tx, lpc, lnow,
                   ldeadline, responses, lres, lpayload, stale, llast>>
    /\ UNCHANGED <<gpsVars, decVars, pktVars>>

\* time.sleep(sleep_time), then the next iteration
MainSleep ==
    /\ mpc = "sleep"
    /\ mpc' = "loop"
    /\ UNCHANGED <<gps_bus, startup, exit_status, interval, sends, sleep_time,
                   overrun, ended>>
    /\ UNCHANGED <<gpsVars, decVars, loraVars, pktVars>>

\* what leaves the loop is over: neither call goes on
leave_loop ==
    /\ mpc' = "done"
    /\ finally_close
    /\ pc' = "idle"
    /\ lpc' = "idle"
    /\ rx' = <<>>
    /\ UNCHANGED <<startup, interval, sends, sleep_time, overrun>>
    /\ UNCHANGED <<backend, segs, stream, off, buf, pos, now, deadline, result,
                   frames, rejected, split, last>>
    /\ UNCHANGED <<transparent, timeout, at_response_timeout, tx, lnow, ldeadline,
                   responses, lres, lpayload, stale, llast>>
    /\ UNCHANGED <<decVars, pktVars>>

\* KeyboardInterrupt anywhere in the loop: log; finally: lora.close();
\* gps.close(); run() returns
MainInterrupt ==
    /\ mpc \in {"loop", "get_fix", "send", "sleep"}
    /\ exit_status' = returned_status
    /\ ended' = "interrupt"
    /\ leave_loop

\* an exception that is neither NotImplementedError nor KeyboardInterrupt
\* leaves gps.get_fix() (SerialGPS.get_fix converts the fields of a sentence
\* outside any try): no handler in run(); finally: lora.close(); gps.close();
\* the exception leaves run()
MainError ==
    /\ mpc = "get_fix"
    /\ pc = "loop"
    /\ backend = "serial"
    /\ exit_status' = raised_status
    /\ ended' = "error"
    /\ leave_loop

MainNext ==
    \/ \E gpsOk \in BOOLEAN, loraOk \in BOOLEAN : MainStartup(gpsOk, loraOk)
    \/ MainLoopTop
    \/ MainGetFixCall
    \/ MainGetFixStep
    \/ MainGot
    \/ MainSendCall
    \/ MainSendStep
    \/ MainDevice
    \/ MainSent
    \/ MainSleep
    \/ MainInterrupt
    \/ MainError

MainSpec == MainInit /\ [][MainNext]_vars

MainTypeOK ==
    /\ mpc \in {"start", "loop", "get_fix", "send", "sleep", "done"}
    /\ gps_bus \in {"none", "open", "closed"}
    /\ startup \in {"pending", "ok", "gps_failed", "lora_failed"}
    /\ exit_status \in {-1, 0, 1}
    /\ (mpc = "done") <=> (exit_status # -1)
    /\ interval \in Intervals
    /\ sends \in {0, 1}
    /\ sleep_time \in -1..interval
    /\ overrun \in BOOLEAN
    /\ ended \in {"no", "startup", "interrupt", "error"}
    /\ (mpc = "done") <=> (ended # "no")

\* ------------------------------------------------------------------------
\* C20: when a channel cannot be opened at startup, the main loop is never
\* entered (no get_fix, no send) and the process exits with a non-zero
\* status.
\* ------------------------------------------------------------------------
StartupFailed == startup \in {"gps_failed", "lora_failed"}

C20_StartupFailureFatal ==
    StartupFailed =>
        /\ mpc = "done"
        /\ last.op = "none" /\ pc = "idle"
        /\ lres = "none" /\ lpc = "idle" /\ tx = <<>>
        /\ exit_status # 0

\* ------------------------------------------------------------------------
\* packet.py: make_packet
\* ------------------------------------------------------------------------
\* a number, a string (v names its text) and an inertial sample
Num(n) == [t |-> "num", v |-> n]

Str(n) == [t |-> "str", v |-> n]

Imu(n) == [t |-> "imu", v |-> n]

\* the text of string n: 1 is a time stamp of the sensor ("T1"), 0 is what
\* datetime.now(UTC).isoformat(timespec="seconds").replace("+00:00", "Z")
\* gives ("T0Z")
Text(n) == IF n = 0 THEN <<84, 48, 90>> ELSE <<84, 48 + n>>

\* the names the fix sources and make_packet use, as bytes
KeyBytes(k) ==
    CASE k = "ts" -> <<116, 115>>
      [] k = "lat" -> <<108, 97, 116>>
      [] k = "lon" -> <<108, 111, 110>>
      [] k = "alt" -> <<97, 108, 116>>
      [] k = "fix" -> <<102, 105, 120>>
      [] k = "sats" -> <<115, 97, 116, 115>>
      [] k = "hdop" -> <<104, 100, 111, 112>>
      [] k = "imu" -> <<105, 109, 117>>
      [] k = "accel" -> <<97, 99, 99, 101, 108>>
      [] k = "gyro" -> <<103, 121, 114, 111>>

\* "k" in gps_data
has_key(d, k) == d[k] # Missing

\* gps_data.get(k)
get(d, k) == IF has_key(d, k) THEN d[k] ELSE None

\* not ts: None and the empty string are false
falsy(v) == v = None \/ (v.t = "str" /\ Text(v.v) = <<>>)

\* ts = gps_data.get("stamp"); if not ts: ts = datetime.now(UTC)...
ts_of(d) == IF falsy(get(d, "stamp")) THEN Str(0) ELSE get(d, "stamp")

\* mutant: the key imu is always set
imu_member_always(d) == <<[k |-> "imu", v |-> get(d, "imu")]>>

\* if "imu" in gps_data: pkg["imu"] = gps_data["imu"]
imu_member(d) ==
    IF has_key(d, "imu") THEN <<[k |-> "imu", v |-> d["imu"]]>> ELSE <<>>

\* pkg, as the sequence of its members in insertion order
pkg(d) ==
    << [k |-> "ts", v |-> ts_of(d)],
       [k |-> "lat", v |-> get(d, "lat")],
       [k |-> "lon", v |-> get(d, "lon")],
       [k |-> "alt", v |-> get(d, "alt")],
       [k |-> "fix", v |-> get(d, "fix")],
       [k |-> "sats", v |-> get(d, "num_sats")],
       [k |-> "hdop", v |-> get(d, "hdop")] >> \o imu_member(d)

\* json.dumps(..., separators=(",", ":")).encode("utf-8"), for the values a
\* packet holds
Quoted(text) == <<34>> \o text \o <<34>>

json_num(n) == IF n < 0 THEN <<45>> \o str_int(-n) ELSE str_int(n)

json_list(a, b, c) ==
    <<91>> \o json_num(a) \o <<44>> \o json_num(b) \o <<44>> \o json_num(c) \o <<93>>

json_value(v) ==
    CASE v.t = "null" -> <<110, 117, 108, 108>>
      [] v.t = "num" -> json_num(v.v)
      [] v.t = "str" -> Quoted(Text(v.v))
      [] v.t = "imu" -> <<123>> \o Quoted(KeyBytes("accel")) \o <<58>>
                        \o json_list(v.v, 0, 9) \o <<44>>
                        \o Quoted(KeyBytes("gyro")) \o <<58>>
                        \o json_list(0, v.v, 1) \o <<125>>

RECURSIVE json_members(_)
json_members(ms) ==
    IF ms = <<>> THEN <<>>
    ELSE Quoted(KeyBytes(Head(ms).k)) \o <<58>> \o json_value(Head(ms).v)
         \o (IF Len(ms) > 1 THEN <<44>> ELSE <<>>) \o json_members(Tail(ms))

json_dumps(ms) == <<123>> \o json_members(ms) \o <<125>>

make_packet(d) == json_dumps(pkg(d))

\* the fixes the sources hand to make_packet: every key is missing, None or
\* set; the inertial sample is missing or set (SimulatedGPS, the test
\* sender); speed_knots stands for the keys of an RMC fix that are no part
\* of a packet
Opt(v) == {Missing, None, v}

PktInit ==
    /\ \E st \in Opt(Str(1)), la \in Opt(Num(40)), lo \in Opt(Num(-74)),
          al \in Opt(Num(120)), fx \in Opt(Num(1)), ns \in Opt(Num(10)),
          hd \in Opt(Num(2)), im \in {Missing, Imu(3)}, sp \in {Missing, Num(5)} :
          gps_data = [stamp |-> st, lat |-> la, lon |-> lo, alt |-> al, fix |-> fx,
                      num_sats |-> ns, hdop |-> hd, imu |-> im, speed_knots |-> sp]
    /\ packet = <<>>
    /\ GpsIdle
    /\ DecIdle
    /\ LoraIdle
    /\ MainIdle

\* one call of make_packet
MakePacket ==
    /\ packet = <<>>
    /\ packet' = make_packet(gps_data)
    /\ UNCHANGED gps_data
    /\ UNCHANGED <<gpsVars, decVars, loraVars, mainVars>>

PktNext == MakePacket

PacketSpec == PktInit /\ [][PktNext]_vars

\* ------------------------------------------------------------------------
\* C21: whichever way run() is left (interrupt, an error inside the loop, a
\* startup failure after one channel was opened), no channel handle that was
\* opened is still open when run() has returned.
\* ------------------------------------------------------------------------
C21_HandlesReleased == mpc = "done" => (gps_bus # "open" /\ ser # "open")

\* ------------------------------------------------------------------------
\* C22: an interrupt that arrives anywhere in the main loop (before get_fix,
\* inside get_fix, inside send_packet, before the sleep) closes both
\* channels before run() returns; the interrupting step itself writes
\* nothing and starts no call, and after it nothing happens any more: no
\* get_fix, no send, no retry of the write or command that was cut short.
\* ------------------------------------------------------------------------
Interrupted == ended = "interrupt"

C22_InterruptShutsDown ==
    /\ [][(~Interrupted /\ Interrupted') =>
             /\ mpc \in {"loop", "get_fix", "send", "sleep"}
             /\ mpc' = "done"
             /\ ser' = "closed" /\ gps_bus' = "closed"
             /\ pc' = "idle" /\ lpc' = "idle"
             /\ tx' = tx /\ last' = last /\ llast' = llast /\ sends' = sends]_vars
    /\ [][~Interrupted]_vars

\* the interrupt arrived while the answer to an AT+SEND command was awaited
C22_Witness ==
    /\ Interrupted /\ mpc = "done"
    /\ lres = "pending" /\ tx # <<>>
    /\ ser = "closed" /\ gps_bus = "closed"

\* ------------------------------------------------------------------------
\* C23: in one iteration of the main loop send_packet is called once when
\* get_fix returned a fix and not at all when it returned nothing.  A send
\* that reports failure is not repeated and does not end the loop: the
\* iteration goes on to its sleep, and the next iteration starts with no
\* send made and sends only the packet of a fix of its own.
\* ------------------------------------------------------------------------
SendCalled == sends' > sends

IterationEnds == mpc # "sleep" /\ mpc' = "sleep"

SendFailed == mpc = "send" /\ lpc = "idle" /\ lres = "false"

C23_OneSendPerFix ==
    /\ [][SendCalled => (mpc = "send" /\ result.kind = "fix" /\ sends = 0)]_vars
    /\ [][IterationEnds => sends' = (IF result.kind = "fix" THEN 1 ELSE 0)]_vars
    /\ [][SendFailed => \/ mpc' = "sleep" /\ sends' = 1 /\ tx' = tx
                        \/ Interrupted'
                        \/ mpc' = "send" /\ sends' = sends /\ tx' = tx]_vars
    /\ [][(mpc = "loop" /\ mpc' = "get_fix") => (sends' = 0 /\ tx' = tx)]_vars

\* an iteration is under way after one whose only send failed
C23_Witness ==
    /\ mpc = "get_fix" /\ pc = "loop" /\ sends = 0
    /\ lres = "false" /\ llast.op \in {"send", "timeout", "poll"}

\* ------------------------------------------------------------------------
\* C26: the sleep at the end of an iteration is the interval minus the time
\* the iteration took, or zero when the iteration took longer than the
\* interval; it is never negative, and an iteration that follows an overrun
\* sleeps for its own remainder, not for less.
\* ------------------------------------------------------------------------
C26_SleepIsRemainder ==
    /\ sleep_time >= -1
    /\ mpc = "sleep" =>
          /\ sleep_time >= 0
          /\ elapsed <= interval => sleep_time = interval - elapsed
          /\ elapsed > interval => sleep_time = 0

\* an iteration that overran the interval sleeps for zero ticks
C26_Witness == mpc = "sleep" /\ elapsed > interval /\ sleep_time = 0

\* after an overrun, an iteration sleeps for the whole of its own remainder
C26_NoCatchUp == mpc = "sleep" /\ overrun /\ sleep_time = interval - elapsed /\ sleep_time > 0

\* ------------------------------------------------------------------------
\* C24: the mode a link was constructed with is the mode it keeps: open,
\* send and close leave it alone, and every send takes the path of that
\* mode.  A transparent link writes bytes of the payload itself, reads and
\* discards nothing and never waits for a response; a command link writes
\* nothing but one AT+SEND command and, when the write went through, waits
\* for the response.
\* ------------------------------------------------------------------------
StartsWith(text, prefix) ==
    Len(text) >= Len(prefix) /\ SubSeq(text, 1, Len(prefix)) = prefix

C24_ModeFixed ==
    /\ [][transparent' = transparent]_vars
    /\ [][(SendStep /\ transparent) =>
             /\ lpc' = "idle" /\ lres' # "pending"
             /\ \A i \in DOMAIN tx' : StartsWith(lpayload', tx'[i])
             /\ Len(rx') = Len(rx)]_vars
    /\ [][(SendStep /\ ~transparent) =>
             /\ \A i \in DOMAIN tx' : StartsWith(tx'[i], AtSend)
             /\ llast'.fault = "none" => (lpc' = "collect" /\ Len(tx') = 1)]_vars

\* a command link that has sent a command and has been closed since
C24_Witness ==
    /\ ~transparent /\ llast.op = "close" /\ ser = "closed"
    /\ Len(tx) = 1 /\ StartsWith(tx[1], AtSend)

\* ------------------------------------------------------------------------
\* C25: read back as a JSON object, the packet has the members ts, lat, lon,
\* alt, fix, sats, hdop, once each and in this order; ts is a string, never
\* null; each of the other six is null exactly when the fix has no value for
\* it (the key is missing or holds None) and is the fix's own value
\* otherwise; the member imu follows exactly when the fix has an inertial
\* sample, and is then that sample, never null; there is no other member.
\* ------------------------------------------------------------------------
JsonNull == <<110, 117, 108, 108>>

\* index of the first comma at or behind i that is outside strings, objects
\* and lists, or Len(text) + 1
RECURSIVE MemberEnd(_, _, _, _)
MemberEnd(text, i, depth, instr) ==
    IF i > Len(text) THEN i
    ELSE IF text[i] = 34 THEN MemberEnd(text, i + 1, depth, ~instr)
    ELSE IF instr THEN MemberEnd(text, i + 1, depth, instr)
    ELSE IF text[i] \in {123, 91} THEN MemberEnd(text, i + 1, depth + 1, instr)
    ELSE IF text[i] \in {125, 93} THEN MemberEnd(text, i + 1, depth - 1, instr)
    ELSE IF text[i] = 44 /\ depth = 0 THEN i
    ELSE MemberEnd(text, i + 1, depth, instr)

\* the bytes of text from i on, cut at those commas
RECURSIVE SplitTop(_, _)
SplitTop(text, i) ==
    IF i > Len(text) THEN <<>>
    ELSE LET e == MemberEnd(text, i, 0, FALSE)
         IN  <<SubSeq(text, i, e - 1)>> \o SplitTop(text, e + 1)

\* index of the first colon of a member
FirstColon(m) == CHOOSE i \in 1..Len(m) : m[i] = 58 /\ \A j \in 1..(i - 1) : m[j] # 58

\* the members of a JSON object: name (without its quotes) and value text
Members(obj) ==
    LET parts == SplitTop(SubSeq(obj, 2, Len(obj) - 1), 1) IN
    [i \in 1..Len(parts) |->
        LET c == FirstColon(parts[i]) IN
        [k |-> SubSeq(parts[i], 2, c - 2), v |-> SubSeq(parts[i], c + 1, Len(parts[i]))]]

IsObject(text) == Len(text) >= 2 /\ Head(text) = 123 /\ text[Len(text)] = 125

Unset(d, k) == d[k] \in {Missing, None}

PacketKeys == <<"ts", "lat", "lon", "alt", "fix", "sats", "hdop">>

FixKeyOf(k) == IF k = "sats" THEN "num_sats" ELSE k

C25_PacketShape ==
    packet # <<>> =>
        /\ IsObject(packet)
        /\ \E m \in {Members(packet)} :
            /\ Len(m) = 7 + (IF gps_data.imu # Missing THEN 1 ELSE 0)
            /\ \A i \in 1..7 : m[i].k = KeyBytes(PacketKeys[i])
            /\ m[1].v # JsonNull /\ Head(m[1].v) = 34
            /\ m[1].v = (IF Unset(gps_data, "stamp") THEN Quoted(Text(0))
                         ELSE Quoted(Text(gps_data.stamp.v)))
            /\ \A i \in 2..7 :
                  \E f \in {gps_data[FixKeyOf(PacketKeys[i])]} :
                      /\ (m[i].v = JsonNull) <=> (f \in {Missing, None})
                      /\ f \notin {Missing, None} => m[i].v = json_num(f.v)
            /\ Len(m) = 8 => /\ m[8].k = KeyBytes("imu")
                             /\ m[8].v # JsonNull
                             /\ m[8].v = json_value(gps_data.imu)

\* a fix with latitude and longitude and nothing else (and a key that is no
\* part of a packet) has been encoded
C25_Witness ==
    /\ packet # <<>>
    /\ gps_data.lat = Num(40) /\ gps_data.lon = Num(-74)
    /\ \A k \in {"stamp", "alt", "fix", "num_sats", "hdop", "imu"} : gps_data[k] = Missing
    /\ gps_data.speed_knots # Missing

\* ------------------------------------------------------------------------
\* C27: the extraction attempt is repeated after each chunk until it signals
\* absence: when an iteration of the get_fix loop has extracted a frame and
\* goes on to the next bus read, no further valid frame can be extracted
\* from what the buffer already holds.
\* ------------------------------------------------------------------------
C27_ChunkDrained ==
    [][(PollStep /\ frames' # frames /\ pc' = "loop") =>
          ~try_parse_buf(buf').ret.valid]_vars

\* ------------------------------------------------------------------------
\* C28: a frame that passes its checksum and is not NAV-POSLLH (class 0x01,
\* id 0x02) gives no fix.  The iteration that extracts it removes it from
\* the buffer (with whatever was in front of it), leaves the result of the
\* call alone and stays in the loop; the call leaves the loop only in an
\* iteration that extracted a position frame, or when the deadline has
\* passed.
\* ------------------------------------------------------------------------
IsPosition(f) == f.cls = NAV_CLASS /\ f.id = NAV_POSLLH_ID

Extracted == frames' # frames

OtherFrameSkipped(b, sp, c) ==
    (Extracted /\ ~IsPosition(c.frame)) =>
        /\ frames' = Append(frames, c.frame)
        /\ buf' = SubSeq(b, c.i + c.span + 1, Len(b))
        /\ pc' = "loop"
        /\ result' = result

C28_OtherFramesSkipped ==
    /\ [][AtPoll(OtherFrameSkipped)]_vars
    /\ [][(backend = "i2c" /\ pc = "loop" /\ pc' = "idle") =>
             \/ PollStep /\ Extracted /\ IsPosition(frames'[Len(frames')])
             \/ last'.op = "timeout" /\ now >= deadline]_vars

\* an acknowledgement frame was extracted and passed over, and the position
\* frame behind it gave the fix of the same call
C28_Witness ==
    /\ segs = <<"ack", "posfull">>
    /\ last.op = "poll" /\ pc = "idle" /\ result.kind = "fix"
    /\ Len(frames) = 2 /\ ~IsPosition(frames[1]) /\ IsPosition(frames[2])
    /\ buf = <<>>

\* ------------------------------------------------------------------------
\* C29: a frame with a wrong checksum does not take a valid frame behind it
\* with it.  When the buffer an attempt works on holds, at its first sync
\* marker, a complete frame whose checksum does not match and whose bytes
\* behind the marker hold no sync marker, and directly behind that frame a
\* complete frame whose checksum matches, then attempts repeated on these
\* contents alone return a frame, within as many attempts as the buffer has
\* bytes, and the first frame they return is that valid frame: its class,
\* its id and its payload.
\* ------------------------------------------------------------------------
\* the first frame that up to k attempts in a row on b return, NoFrame when
\* they return none
RECURSIVE FirstFrame(_, _)
FirstFrame(b, k) ==
    IF k = 0 THEN NoFrame
    ELSE LET r == try_parse_buf(b)
         IN  IF r.ret.valid THEN r.ret
             ELSE IF DelSlice(b, r.del) = b THEN NoFrame
             ELSE FirstFrame(DelSlice(b, r.del), k - 1)

\* the bytes of b behind the candidate frame c
Behind(b, c) == SubSeq(b, c.i + c.span + 1, Len(b))

\* c is a complete frame with a wrong checksum and no sync marker inside
BadFrame(b, c) ==
    /\ c.complete /\ c.trail # c.sum
    /\ ~HasSync(SubSeq(b, c.i + 3, c.i + c.span))

\* b starts with a complete frame whose checksum matches
ValidAhead(b) ==
    \E c \in {Cand(b)} : c.has /\ c.i = 0 /\ c.complete /\ c.trail = c.sum

ValidBehindBad(b, sp, c) ==
    (BadFrame(b, c) /\ ValidAhead(Behind(b, c))) =>
        FirstFrame(b, Len(b)) = Cand(Behind(b, c)).frame

C29_BadFrameKeepsNext == [][AtPoll(ValidBehindBad)]_vars

\* the corrupted frame and the position frame behind it were in the buffer
\* together; the marker of the first was rejected and the position frame
\* was then extracted and decoded
C29_Witness ==
    /\ segs = <<"badA", "posfull">>
    /\ Cardinality(rejected) = 1
    /\ 1 \in rejected
    /\ Len(frames) = 1 /\ frames[1] = SegFrame("posfull")
    /\ result.kind = "fix" /\ pc = "idle"
    /\ ~split

\* ------------------------------------------------------------------------
\* C30: the receive buffer outlives the call.  A call of get_fix starts with
\* the buffer as the last call left it, and a call that times out leaves it
\* as it is; so when the sensor sends one valid frame and nothing else, the
\* frame has been extracted once its last byte has been read, however its
\* bytes were spread over reads and over calls, and a position frame among
\* them has given the fix of the call that read its last byte.
\* ------------------------------------------------------------------------
CallEnters == pc = "idle" /\ pc' = "loop"

OneValidFrame == Len(segs) = 1 /\ SegFrame(segs[1]).valid

AllRead == stream # <<>> /\ off = Len(stream)

C30_BufferOutlivesCall ==
    /\ [][CallEnters => (buf' = buf /\ pos' = pos)]_vars
    /\ [][(pc = "loop" /\ last'.op = "timeout") => buf' = buf]_vars
    /\ [](backend = "i2c" /\ OneValidFrame /\ AllRead =>
            /\ frames = <<SegFrame(segs[1])>>
            /\ buf = <<>>)
    /\ [][(backend = "i2c" /\ segs = <<"posfull">> /\ ~AllRead /\ AllRead') =>
             (pc' = "idle" /\ result'.kind = "fix")]_vars

\* a call has just started with the first bytes of a position frame, read
\* by an earlier call, in the buffer; the rest of the frame is still to come
C30_Witness ==
    /\ segs = <<"posfull">>
    /\ last.op = "enter" /\ pc = "loop"
    /\ buf # <<>> /\ buf = SubSeq(stream, 1, Len(buf))
    /\ off = Len(buf) /\ off < Len(stream)
    /\ frames = <<>>

\* ------------------------------------------------------------------------
\* The frame assembler behind a marker that announces more than has come
\* ------------------------------------------------------------------------
\* what the sensor sends: a header that announces a payload, or a frame that
\* carries a whole frame as its payload, and valid frames behind it
ValidNames == {"ack", "posshort", "posfull"}

WaitScripts ==
    {<<h>> \o t : h \in {"long", "nest"},
                  t \in UNION {[1..n -> ValidNames] : n \in 0..MaxSegs}}

WaitInit ==
    /\ backend \in {"i2c", "serial"}
    /\ segs \in (IF backend = "i2c" THEN WaitScripts ELSE {<<>>})
    /\ stream = Stream(segs)
    /\ off = 0
    /\ buf = <<>>
    /\ pos = <<>>
    /\ now = 0
    /\ deadline = 0
    /\ pc = "idle"
    /\ result = NoFix
    /\ frames = <<>>
    /\ rejected = {}
    /\ split = FALSE
    /\ last = NoLast
    /\ DecIdle
    /\ LoraIdle
    /\ MainIdle
    /\ PktIdle

WaitSpec == WaitInit /\ [][Next]_vars

\* ------------------------------------------------------------------------
\* C31: an extraction attempt looks at the earliest sync marker of the
\* buffer and at no other.  While the span that marker announces is not
\* wholly in the buffer the attempt returns nothing and leaves the buffer
\* alone, also when a complete frame with a matching checksum lies behind
\* the marker; and a frame an attempt returns is always the frame at the
\* earliest marker, complete and with a matching checksum.
\* ------------------------------------------------------------------------
\* a complete frame with a matching checksum starts in b behind offset i
ValidLater(b, i) ==
    \E j \in (i + 1)..Len(b) : ValidAhead(SubSeq(b, j + 1, Len(b)))

EarliestOnly(b, sp, c) ==
    /\ (c.has /\ ~c.complete) =>
          /\ Absent
          /\ buf' = b
          /\ last'.idx = c.i
          /\ pc' = "loop"
    /\ Extracted =>
          /\ c.complete /\ c.trail = c.sum
          /\ last'.idx = FirstSync(b)
          /\ frames' = Append(frames, c.frame)

C31_EarliestMarkerOnly == [][AtPoll(EarliestOnly)]_vars

\* everything the sensor sent is in the buffer: a header that announces
\* twelve bytes of payload and a complete acknowledgement frame behind it;
\* the attempt waited for the announced span and returned nothing
C31_Witness ==
    /\ segs = <<"long", "ack">>
    /\ off = Len(stream) /\ buf = stream
    /\ last.op = "poll" /\ last.branch = "wait" /\ last.idx = 0
    /\ ValidLater(buf, 0)
    /\ frames = <<>>

\* ------------------------------------------------------------------------
\* C32: in every command a command-mode send writes, the number behind
\* AT+SEND= is the number of bytes between the comma and the closing CR LF.
\* ------------------------------------------------------------------------
\* index of the first comma of cmd
FirstComma(cmd) ==
    CHOOSE i \in 1..Len(cmd) : cmd[i] = Comma /\ \A j \in 1..(i - 1) : cmd[j] # Comma

\* the number a sequence of decimal digits denotes
RECURSIVE DigitsValue(_)
DigitsValue(ds) ==
    IF ds = <<>> THEN 0
    ELSE 10 * DigitsValue(SubSeq(ds, 1, Len(ds) - 1)) + (ds[Len(ds)] - 48)

\* the length a command declares, and the bytes it carries as data
DeclaredLength(cmd) == DigitsValue(SubSeq(cmd, Len(AtSend) + 1, FirstComma(cmd) - 1))

DataLength(cmd) == Len(cmd) - FirstComma(cmd) - Len(CRLF)

C32_DeclaredLengthIsSent ==
    [][(SendStep /\ ~transparent /\ tx' # <<>>) =>
          \E cmd \in {tx'[1]} :
              /\ StartsWith(cmd, AtSend)
              /\ SubSeq(cmd, Len(cmd) - 1, Len(cmd)) = CRLF
              /\ DeclaredLength(cmd) = DataLength(cmd)]_vars

====
